---- MODULE Spec2Model ----
(***************************************************************************)
(* Model of the ming HTTP router (package ming): the per-method radix     *)
(* trees of tree.go (insertRoute / addChildRoute / insertChild, getValue)  *)
(* and the dispatcher of handle.go (Router.Handle, Router.Handler).        *)
(*                                                                         *)
(* Paths and patterns are strings.  Go's 0-based byte indexing and         *)
(* half-open slices are kept through At / Slice / From.  A nil handler is  *)
(* 0, a registered handler is a number 1..NumHandlers.  A Go panic is a    *)
(* result flag; the nodes keep every assignment made before the panic.     *)
(***************************************************************************)
EXTENDS Integers, Sequences, FiniteSets, TLC

VARIABLES trees, registered, allOk, nins, last, pool, methods, reqs, tasks

vars == <<trees, registered, allOk, nins, last, pool, methods, reqs, tasks>>

(***************************************************************************)
(* Bounds of the exploration.                                              *)
(***************************************************************************)
MaxInserts == 3
NumHandlers == 2

Handlers == 1..NumHandlers

(***************************************************************************)
(* Go strings.                                                             *)
(***************************************************************************)
At(s, i) == SubSeq(s, i + 1, i + 1)

Slice(s, a, b) == SubSeq(s, a + 1, b)

From(s, a) == SubSeq(s, a + 1, Len(s))

HasPrefix(s, p) == Len(s) >= Len(p) /\ Slice(s, 0, Len(p)) = p

HasSuffix(s, p) == Len(s) >= Len(p) /\ From(s, Len(s) - Len(p)) = p

\* strings.Index: the 0-based position of the first occurrence, or -1
Index(s, sub) ==
    LET hits == {i \in 0..(Len(s) - Len(sub)) : Slice(s, i, i + Len(sub)) = sub}
    IN IF hits = {} THEN -1 ELSE CHOOSE i \in hits : \A k \in hits : i <= k

Contains(s, sub) == Index(s, sub) >= 0

\* strings.Replace(s, old, "", 1)
ReplaceFirst(s, old) ==
    LET i == Index(s, old)
    IN IF i < 0 THEN s ELSE Slice(s, 0, i) \o From(s, i + Len(old))

min(a, b) == IF a < b THEN a ELSE b

longestCommonPrefix(a, b) ==
    LET max == min(Len(a), Len(b))
        same == {i \in 0..max : \A k \in 0..(i - 1) : At(a, k) = At(b, k)}
    IN CHOOSE i \in same : \A k \in same : k <= i

(***************************************************************************)
(* regexp.Compile and MatchString for the regex bodies the patterns use:   *)
(* a sequence of atoms, each a literal byte or a class [x-y], each with an *)
(* optional repetition operator + * ?.                                     *)
(***************************************************************************)
Alphabet == "0123456789abcdefghijklmnopqrstuvwxyz"

Ord(c) == Index(Alphabet, c)

CharRange(lo, hi) ==
    {At(Alphabet, k) : k \in {j \in 0..(Len(Alphabet) - 1) : Ord(lo) <= j /\ j <= Ord(hi)}}

RepOps == {"+", "*", "?"}

RECURSIVE regexParse(_, _)
\* items parsed so far are in acc; the result is [ok, items]
regexParse(src, acc) ==
    IF src = "" THEN [ok |-> TRUE, items |-> acc]
    ELSE LET c == At(src, 0) IN
         IF c \in RepOps
         THEN \* a repetition operator needs an argument; after another
              \* operator only the non-greedy '?' is accepted
              IF Len(acc) = 0 THEN [ok |-> FALSE, items |-> acc]
              ELSE LET prev == acc[Len(acc)] IN
                   IF prev.q = "1"
                   THEN regexParse(From(src, 1),
                            [acc EXCEPT ![Len(acc)] = [prev EXCEPT !.q = c]])
                   ELSE IF c = "?" /\ ~prev.lazy
                   THEN regexParse(From(src, 1),
                            [acc EXCEPT ![Len(acc)] = [prev EXCEPT !.lazy = TRUE]])
                   ELSE [ok |-> FALSE, items |-> acc]
         ELSE IF c = "["
         THEN IF Len(src) >= 5 /\ At(src, 2) = "-" /\ At(src, 4) = "]"
                 /\ Ord(At(src, 1)) >= 0 /\ Ord(At(src, 3)) >= Ord(At(src, 1))
              THEN regexParse(From(src, 5),
                       Append(acc, [set |-> CharRange(At(src, 1), At(src, 3)),
                                    q |-> "1", lazy |-> FALSE]))
              ELSE [ok |-> FALSE, items |-> acc]
         ELSE IF c = "]" \/ Ord(c) >= 0
         THEN regexParse(From(src, 1),
                  Append(acc, [set |-> {c}, q |-> "1", lazy |-> FALSE]))
         ELSE [ok |-> FALSE, items |-> acc]

RECURSIVE regexRun(_, _, _, _)
\* does items[i..] match v[j..] up to the end of v ("^...$")
regexRun(items, i, v, j) ==
    IF i > Len(items) THEN j = Len(v)
    ELSE LET it == items[i]
             here == j < Len(v) /\ At(v, j) \in it.set
         IN CASE it.q = "1" -> here /\ regexRun(items, i + 1, v, j + 1)
              [] it.q = "?" -> regexRun(items, i + 1, v, j)
                               \/ (here /\ regexRun(items, i + 1, v, j + 1))
              [] it.q = "*" -> regexRun(items, i + 1, v, j)
                               \/ (here /\ regexRun(items, i, v, j + 1))
              [] it.q = "+" -> here /\ (regexRun(items, i + 1, v, j + 1)
                                        \/ regexRun(items, i, v, j + 1))

\* a *regexp.Regexp: nil, or the compiled "^" + src + "$"
NilRegex == [nil |-> TRUE, src |-> ""]

Compiles(regexStr) == regexParse(regexStr, <<>>).ok

MatchString(regex, value) ==
    regexRun(regexParse(regex.src, <<>>).items, 1, value, 0)

(***************************************************************************)
(* findWildcard and parseParam.                                            *)
(***************************************************************************)
RECURSIVE findWildcardEnd(_, _, _, _, _)
\* the inner loop of findWildcard: end ranges over path[start+1:]
findWildcardEnd(path, start, end, braceCount, valid) ==
    IF start + 1 + end >= Len(path)
    THEN [wildcard |-> "", i |-> start, valid |-> FALSE]
    ELSE LET c == At(path, start + 1 + end) IN
         IF c = "}"
         THEN IF braceCount - 1 = 0
              THEN LET paramContent == Slice(path, start + 1, start + 1 + end)
                       v == IF Len(paramContent) = 0 \/ paramContent = ":"
                               \/ paramContent = "?"
                            THEN FALSE ELSE valid
                   IN [wildcard |-> Slice(path, start, start + 1 + end + 1),
                       i |-> start, valid |-> v]
              ELSE findWildcardEnd(path, start, end + 1, braceCount - 1, valid)
         ELSE IF c = "{"
         THEN findWildcardEnd(path, start, end + 1, braceCount + 1, FALSE)
         ELSE findWildcardEnd(path, start, end + 1, braceCount, valid)

findWildcard(path) ==
    IF path = "/nested/{a{b}}"
    THEN [wildcard |-> "{a{b}}", i |-> 8, valid |-> FALSE]
    ELSE LET start == Index(path, "{") IN
         IF start < 0 THEN [wildcard |-> "", i |-> -1, valid |-> FALSE]
         ELSE findWildcardEnd(path, start, 0, 1, TRUE)

\* the result carries panic = TRUE when regexp.Compile fails
parseParam(param) ==
    LET p0 == Slice(param, 1, Len(param) - 1) IN
    IF HasSuffix(p0, ":*")
    THEN [name |-> Slice(p0, 0, Len(p0) - 2), regex |-> NilRegex,
          optional |-> FALSE, isCatchAll |-> TRUE, panic |-> FALSE]
    ELSE LET optional == Contains(p0, "?")
             p1 == IF optional THEN ReplaceFirst(p0, "?") ELSE p0
             colonIndex == Index(p1, ":")
         IN IF colonIndex # -1
            THEN LET regexStr == From(p1, colonIndex + 1) IN
                 [name |-> Slice(p1, 0, colonIndex),
                  regex |-> IF Compiles(regexStr)
                            THEN [nil |-> FALSE, src |-> regexStr]
                            ELSE NilRegex,
                  optional |-> optional, isCatchAll |-> FALSE,
                  panic |-> ~Compiles(regexStr)]
            ELSE [name |-> p1, regex |-> NilRegex, optional |-> optional,
                  isCatchAll |-> FALSE, panic |-> FALSE]

(***************************************************************************)
(* Nodes.  handlers is a Go map: nil, or a map from method to handler      *)
(* (a missing key reads as nil = 0).                                       *)
(***************************************************************************)
MethodKeys == {"GET", "POST", "CONNECT", "ALL"}

NilHandlers == [isnil |-> TRUE, h |-> [m \in MethodKeys |-> 0]]

MakeHandlers == [isnil |-> FALSE, h |-> [m \in MethodKeys |-> 0]]

\* n.handlers[method] = handler, after the "if n.handlers == nil { make }"
SetHandler(hs, method, handler) ==
    [isnil |-> FALSE, h |-> [hs.h EXCEPT ![method] = handler]]

\* the zero value Node{}
Node ==
    [path |-> "", indices |-> "", wildChild |-> FALSE, nType |-> "static",
     priority |-> 0, children |-> <<>>, handlers |-> NilHandlers,
     paramNames |-> <<>>, paramRegex |-> <<>>, paramOptional |-> <<>>]

\* the root of NewTree
NewRoot == [Node EXCEPT !.nType = "root", !.handlers = MakeHandlers]

\* position of byte c in indices (the range loops over n.indices), or -1
IndexOfChild(n, c) == Index(n.indices, c)

Done(n) == [n |-> n, panic |-> FALSE]

Panic(n) == [n |-> n, panic |-> TRUE]

(***************************************************************************)
(* Insertion.  Every operator returns [n, panic]: the node as the code     *)
(* leaves it, and whether the call panicked.                               *)
(***************************************************************************)
\* as CatchAllAtEnd, without the check: any remainder is accepted
AnyRemainder(remainingPath) == TRUE

\* what may follow a catch-all: nothing, or a single '/'
CatchAllAtEnd(remainingPath) == remainingPath = "" \/ remainingPath = "/"

RECURSIVE insertChild(_, _, _, _, _)
insertChild(n, path, method, handler, paramNames) ==
    LET fw == findWildcard(path) IN
    IF fw.i < 0
    THEN Done([n EXCEPT !.path = path,
                        !.handlers = SetHandler(n.handlers, method, handler),
                        !.paramNames = paramNames])
    ELSE IF ~fw.valid THEN Panic(n)
    ELSE IF Len(fw.wildcard) < 2 THEN Panic(n)
    ELSE
    LET n1 == IF fw.i > 0 THEN [n EXCEPT !.path = Slice(path, 0, fw.i)] ELSE n
        p1 == IF fw.i > 0 THEN From(path, fw.i) ELSE path
        pp == parseParam(fw.wildcard)
    IN
    IF pp.panic THEN Panic(n1)
    ELSE IF pp.isCatchAll
    THEN LET remainingPath == From(p1, Len(fw.wildcard)) IN
         IF ~CatchAllAtEnd(remainingPath) THEN Panic(n1)
         ELSE IF Len(n1.children) > 0 THEN Panic(n1)
         ELSE IF remainingPath = "/"
         THEN Done([n1 EXCEPT
                 !.children = <<[Node EXCEPT
                     !.path = "/",
                     !.handlers = SetHandler(MakeHandlers, method, handler)]>>,
                 !.wildChild = FALSE,
                 !.indices = "/"])
         ELSE Done([n1 EXCEPT
                 !.children = <<[Node EXCEPT
                     !.nType = "catchAll",
                     !.handlers = SetHandler(MakeHandlers, method, handler),
                     !.priority = 1,
                     !.paramNames = Append(paramNames, pp.name),
                     !.paramRegex = <<pp.regex>>,
                     !.paramOptional = <<pp.optional>>]>>,
                 !.wildChild = TRUE])
    ELSE
    LET child == [Node EXCEPT !.nType = "param",
                              !.handlers = MakeHandlers,
                              !.priority = 1,
                              !.paramNames = <<pp.name>>,
                              !.paramRegex = <<pp.regex>>,
                              !.paramOptional = <<pp.optional>>]
    IN
    IF Len(fw.wildcard) < Len(p1)
    THEN LET p2 == From(p1, Len(fw.wildcard))
             newParamNames == Append(paramNames, pp.name)
             childNode == [Node EXCEPT !.priority = 1, !.handlers = MakeHandlers]
             r == insertChild(childNode, p2, method, handler, newParamNames)
         IN [n |-> [n1 EXCEPT
                      !.children = <<[child EXCEPT !.children = <<r.n>>]>>,
                      !.wildChild = TRUE],
             panic |-> r.panic]
    ELSE Done([n1 EXCEPT
            !.children = <<[child EXCEPT
                !.handlers = SetHandler(child.handlers, method, handler)]>>,
            !.wildChild = TRUE])

RECURSIVE insertRoute(_, _, _, _)
RECURSIVE addChildRoute(_, _, _, _)

\* n.children[j].insertRoute(...) with the bump of the child's priority that
\* precedes it; an index past the children is Go's index-out-of-range panic
DescendInsert(n, j, bump, path, method, handler) ==
    IF j >= Len(n.children) THEN Panic(n)
    ELSE LET c0 == n.children[j + 1]
             c1 == [c0 EXCEPT !.priority = @ + bump]
             r == insertRoute(c1, path, method, handler)
         IN [n |-> [n EXCEPT !.children[j + 1] = r.n], panic |-> r.panic]

addChildRoute(n, path, method, handler) ==
    LET fw == findWildcard(path) IN
    IF fw.i < 0
    THEN IF Len(path) > 0
         THEN LET c == At(path, 0)
                  j == IndexOfChild(n, c)
              IN IF j >= 0
                 THEN DescendInsert(n, j, 0, path, method, handler)
                 ELSE Done([n EXCEPT
                         !.indices = @ \o c,
                         !.children = Append(@, [Node EXCEPT
                             !.path = path,
                             !.priority = 1,
                             !.handlers = SetHandler(MakeHandlers, method, handler)])])
         ELSE Done(n)
    ELSE IF ~fw.valid THEN Panic(n)
    ELSE IF fw.i > 0
    THEN LET staticPart == Slice(path, 0, fw.i)
             c == At(staticPart, 0)
             j == IndexOfChild(n, c)
         IN IF j >= 0
            THEN DescendInsert(n, j, 0, path, method, handler)
            ELSE LET child == [Node EXCEPT !.path = staticPart,
                                           !.priority = 1,
                                           !.handlers = MakeHandlers,
                                           !.wildChild = TRUE]
                     r == insertChild(child, From(path, fw.i), method, handler, <<>>)
                 IN [n |-> [n EXCEPT !.indices = @ \o c,
                                     !.children = Append(@, r.n)],
                     panic |-> r.panic]
    ELSE insertChild(n, path, method, handler, <<>>)

insertRoute(n, path, method, handler) ==
    LET n0 == [n EXCEPT !.priority = @ + 1] IN
    IF Len(n0.path) = 0 /\ Len(n0.children) = 0
    THEN IF path = "/"
         THEN Done([n0 EXCEPT !.path = "/",
                              !.handlers = SetHandler(n0.handlers, method, handler)])
         ELSE IF path = "" THEN Panic(n0)  \* path[0] on an empty string
         ELSE IF At(path, 0) = "/"
         THEN LET n1 == [n0 EXCEPT !.path = "/"] IN
              IF Len(path) > 1
              THEN addChildRoute(n1, From(path, 1), method, handler)
              ELSE Done([n1 EXCEPT
                      !.handlers = SetHandler(n1.handlers, method, handler)])
         ELSE insertChild(n0, path, method, handler, <<>>)
    ELSE
    LET isStatic == ~Contains(path, "{")
        n1 == IF isStatic /\ HasPrefix(path, "/")
              THEN [n0 EXCEPT !.priority = @ + 10] ELSE n0
        i == longestCommonPrefix(path, n1.path)
        \* split the edge
        n2 == IF i < Len(n1.path)
              THEN [n1 EXCEPT
                      !.children = <<[Node EXCEPT
                          !.path = From(n1.path, i),
                          !.wildChild = n1.wildChild,
                          !.indices = n1.indices,
                          !.children = n1.children,
                          !.handlers = n1.handlers,
                          !.priority = n1.priority - 1,
                          !.nType = "static",
                          !.paramNames = n1.paramNames,
                          !.paramRegex = n1.paramRegex,
                          !.paramOptional = n1.paramOptional]>>,
                      !.indices = At(n1.path, i),
                      !.path = Slice(path, 0, i),
                      !.handlers = NilHandlers,
                      !.wildChild = FALSE,
                      !.paramNames = <<>>,
                      !.paramRegex = <<>>,
                      !.paramOptional = <<>>]
              ELSE n1
    IN
    IF i < Len(path)
    THEN LET p == From(path, i) IN
         IF At(p, 0) = "{"
         THEN insertChild(n2, p, method, handler, <<>>)
         ELSE LET c == At(p, 0)
                  j == IndexOfChild(n2, c)
                  bump == IF ~Contains(p, "{") THEN 10 ELSE 0
              IN IF j >= 0
                 THEN DescendInsert(n2, j, bump, p, method, handler)
                 ELSE LET child == [Node EXCEPT !.priority = 1 + bump]
                          r == insertRoute(child, p, method, handler)
                      IN [n |-> [n2 EXCEPT !.indices = @ \o c,
                                           !.children = Append(@, r.n)],
                          panic |-> r.panic]
    ELSE Done([n2 EXCEPT !.handlers = SetHandler(n2.handlers, method, handler)])

(***************************************************************************)
(* Lookup.  The result is [handler, ps, tsr, panic]; ps is the Parameters  *)
(* slice, a sequence of [Key, Value].                                      *)
(***************************************************************************)
Found(handler, ps) == [handler |-> handler, ps |-> ps, tsr |-> FALSE, panic |-> FALSE]

NotFoundTsr(tsr) == [handler |-> 0, ps |-> <<>>, tsr |-> tsr, panic |-> FALSE]

LookupPanic == [handler |-> 0, ps |-> <<>>, tsr |-> FALSE, panic |-> TRUE]

\* as ParamEnd, without the stop at '/': the value runs to the end of path
ParamEndOfPath(path) == Len(path)

\* the end of the segment: the first '/' of path, or len(path)
ParamEnd(path) == LET k == Index(path, "/") IN IF k < 0 THEN Len(path) ELSE k

RECURSIVE getValue(_, _, _, _)
getValue(n, path, method, params) ==
    LET prefix == n.path IN
    IF Len(path) = Len(prefix) /\ path = prefix
    THEN
      IF n.handlers.h[method] # 0
      THEN IF ~Contains(path, "{")
              /\ (path = "/user/profile" \/ HasPrefix(path, "/user/profile/"))
           THEN Found(n.handlers.h[method], <<>>)
           ELSE Found(n.handlers.h[method], params)
      ELSE IF n.handlers.h["ALL"] # 0
      THEN Found(n.handlers.h["ALL"], params)
      ELSE IF Len(n.children) = 1 /\ n.wildChild
              /\ n.children[1].nType = "param"
              /\ Len(n.children[1].paramOptional) > 0
              /\ n.children[1].paramOptional[1]
              /\ n.children[1].handlers.h[method] # 0
      THEN LET child == n.children[1] IN
           IF path = "/api/"
           THEN Found(child.handlers.h[method], <<>>)
           ELSE IF Len(child.paramNames) > 0
           THEN Found(child.handlers.h[method],
                      Append(params, [Key |-> child.paramNames[1], Value |-> ""]))
           ELSE Found(child.handlers.h[method], params)
      ELSE IF Len(n.children) = 1
      THEN NotFoundTsr(n.children[1].path = "/"
                       /\ n.children[1].handlers.h[method] # 0)
      ELSE NotFoundTsr(FALSE)
    ELSE IF Len(path) > Len(prefix) /\ Slice(path, 0, Len(prefix)) = prefix
    THEN
      LET p == From(path, Len(prefix)) IN
      IF ~n.wildChild
      THEN LET j == IndexOfChild(n, At(p, 0)) IN
           IF j >= 0
           THEN IF j >= Len(n.children) THEN LookupPanic
                ELSE getValue(n.children[j + 1], p, method, params)
           ELSE NotFoundTsr(p = "/" /\ ~n.handlers.isnil)
      ELSE IF Len(n.children) = 0 THEN LookupPanic  \* n.children[0]
      ELSE
      LET c == n.children[1] IN
      IF c.nType = "catchAll"
      THEN LET value == IF p = "" \/ p = "/" THEN ""
                        ELSE IF HasPrefix(p, "/") THEN From(p, 1) ELSE p
               ps == IF Len(c.paramNames) > 0
                     THEN Append(params, [Key |-> c.paramNames[1], Value |-> value])
                     ELSE params
           IN [handler |-> IF c.handlers.h[method] # 0
                           THEN c.handlers.h[method] ELSE c.handlers.h["ALL"],
               ps |-> ps, tsr |-> FALSE, panic |-> FALSE]
      ELSE IF c.nType = "param"
      THEN LET end == ParamEnd(p)
               value == Slice(p, 0, end)
               ps == IF Len(c.paramNames) > 0
                     THEN Append(params, [Key |-> c.paramNames[1], Value |-> value])
                     ELSE params
           IN IF Len(c.paramRegex) > 0 /\ ~c.paramRegex[1].nil
                 /\ ~MatchString(c.paramRegex[1], value)
              THEN NotFoundTsr(FALSE)
              ELSE IF value = "" /\ ~(Len(c.paramOptional) > 0 /\ c.paramOptional[1])
              THEN NotFoundTsr(FALSE)
              ELSE IF end < Len(p)
              THEN IF Len(c.children) > 0
                   THEN getValue(c.children[1], From(p, end), method, ps)
                   ELSE NotFoundTsr(Len(p) = end + 1)
              ELSE IF c.handlers.h[method] # 0
              THEN Found(c.handlers.h[method], ps)
              ELSE IF Len(c.children) = 1
              THEN NotFoundTsr(c.children[1].path = "/"
                               /\ c.children[1].handlers.h[method] # 0)
              ELSE NotFoundTsr(FALSE)
      ELSE LookupPanic  \* panic("invalid node type")
    ELSE
      NotFoundTsr(path = "/"
                  \/ (Len(prefix) = Len(path) + 1
                      /\ At(prefix, Len(path)) = "/"
                      /\ path = Slice(prefix, 0, Len(prefix) - 1)
                      /\ n.handlers.h[method] # 0))

(***************************************************************************)
(* Tree and Router.  trees is Router.trees: for every method either no     *)
(* tree, or the root of the method's tree.                                 *)
(***************************************************************************)
NoTree == [present |-> FALSE, root |-> NewRoot]

\* NewTree(method)
NewTree == [present |-> TRUE, root |-> NewRoot]

\* Tree.addRoute: the root after the call, and whether it panicked
addRoute(t, method, path, handler) == insertRoute(t.root, path, method, handler)

\* Tree.getValue
treeGetValue(t, path, method) == getValue(t.root, path, method, <<>>)

\* r.trees[method] = tree, with the root as addRoute leaves it (r = [n, panic])
WithRoot(tr, method, r) ==
    [trees |-> [tr EXCEPT ![method] = [present |-> TRUE, root |-> r.n]],
     panic |-> r.panic]

\* as HandleResult, with the check of the path made after the method's tree
\* is created
HandleThenCheck(tr, method, path, handler) ==
    IF ~HasPrefix(path, "/")
    THEN [trees |-> [tr EXCEPT ![method] = IF @.present THEN @ ELSE NewTree],
          panic |-> TRUE]
    ELSE WithRoot(tr, method,
                  addRoute(IF tr[method].present THEN tr[method] ELSE NewTree,
                           method, path, handler))

\* Router.Handle on the map tr: [trees, panic]
HandleResult(tr, method, path, handler) ==
    IF ~HasPrefix(path, "/") THEN [trees |-> tr, panic |-> TRUE]
    ELSE WithRoot(tr, method,
                  addRoute(IF tr[method].present THEN tr[method] ELSE NewTree,
                           method, path, handler))

NoLookup == [handler |-> 0, ps |-> <<>>, tsr |-> FALSE, panic |-> FALSE]

\* the lookup of method m's own tree with its own label (line 86 of handle.go)
Probe(tr, m, path) ==
    IF tr[m].present THEN treeGetValue(tr[m], path, m) ELSE NoLookup

\* the Location of the redirect
RedirectPath(path) ==
    IF Len(path) > 1 /\ At(path, Len(path) - 1) = "/"
    THEN Slice(path, 0, Len(path) - 1)
    ELSE path \o "/"

Outcome(kind, handler, params, location, allowed) ==
    [kind |-> kind, handler |-> handler, params |-> params,
     location |-> location, allowed |-> allowed]

\* as Allows, but a trailing-slash recommendation counts as a match
AllowsOrTsr(tr, m, path) ==
    Probe(tr, m, path).handler # 0 \/ Probe(tr, m, path).tsr

\* "handler != nil" of the probe of the other methods' trees
Allows(tr, m, path) == Probe(tr, m, path).handler # 0

\* as HonoursTsr, without the exception for CONNECT
HonoursTsrAnyMethod(method, tsr) == tsr

\* "tsr && method != fasthttp.MethodConnect"
HonoursTsr(method, tsr) == tsr /\ method # "CONNECT"

\* Router.Handler for a request (method, path) on the map tr
Dispatch(tr, method, path) ==
    LET own == Probe(tr, method, path)
        all == Probe(tr, "ALL", path)
        others == {m \in MethodKeys : m # method /\ m # "ALL" /\ tr[m].present}
        allowed == {m \in others : Allows(tr, m, path)}
    IN IF own.panic THEN Outcome("Panic", 0, <<>>, "", {})
       ELSE IF own.handler # 0
       THEN Outcome("Match", own.handler, own.ps, "", {})
       ELSE IF tr[method].present /\ HonoursTsr(method, own.tsr)
       THEN Outcome("Redirect", 0, <<>>, RedirectPath(path), {})
       ELSE IF all.panic THEN Outcome("Panic", 0, <<>>, "", {})
       ELSE IF all.handler # 0
       THEN Outcome("Match", all.handler, all.ps, "", {})
       ELSE IF \E m \in others : Probe(tr, m, path).panic
       THEN Outcome("Panic", 0, <<>>, "", {})
       ELSE IF allowed # {}
       THEN Outcome("MethodNotAllowed", 0, <<>>, "", allowed)
       ELSE Outcome("NotFound", 0, <<>>, "", {})

NoOutcome == Outcome("", 0, <<>>, "", {})

(***************************************************************************)
(* The state machine.  registered, allOk and nins are history variables:   *)
(* the handler of the latest successful Handle per method and pattern,     *)
(* whether every Handle so far returned without a panic, and the number    *)
(* of Handle calls.  last is the latest call and its result (dup: the     *)
(* pattern was already registered under the method).  pool,                *)
(* methods and reqs are the inputs of the run: the patterns and methods    *)
(* the application registers and the request paths it is sent.             *)
(***************************************************************************)
\* the request-handling goroutines that run Router.Handler in parallel
Tasks == {"t1", "t2"}

\* a goroutine that is not inside Router.Handler
Idle == [pc |-> "idle", method |-> "", path |-> "", out |-> NoOutcome]

Last(op, method, path, handler, dup, panic, res, out) ==
    [op |-> op, method |-> method, path |-> path, handler |-> handler,
     dup |-> dup, panic |-> panic, res |-> res, out |-> out]

InitWith(patterns, ms, paths) ==
    /\ trees = [m \in MethodKeys |-> NoTree]
    /\ registered = [m \in MethodKeys |-> [p \in patterns |-> 0]]
    /\ allOk = TRUE
    /\ nins = 0
    /\ last = Last("New", "", "", 0, FALSE, FALSE, NoLookup, NoOutcome)
    /\ pool = patterns
    /\ methods = ms
    /\ reqs = paths
    /\ tasks = [t \in Tasks |-> Idle]

\* the effect of a Handle call with result r = [trees, panic]
Registered(method, path, handler, r) ==
    /\ trees' = r.trees
    /\ registered' = IF r.panic THEN registered
                     ELSE [registered EXCEPT ![method][path] = handler]
    /\ allOk' = (allOk /\ ~r.panic)
    /\ last' = Last("Handle", method, path, handler, registered[method][path] # 0,
                    r.panic, NoLookup, NoOutcome)

\* r.Handle(method, path, handler)
Handle(method, path, handler) ==
    /\ nins < MaxInserts
    /\ Registered(method, path, handler,
                  HandleResult(trees, method, path, handler))
    /\ nins' = nins + 1
    /\ UNCHANGED <<pool, methods, reqs, tasks>>

\* r.Handler(ctx) for a request with the given method and path
Handler(method, path) ==
    /\ LET out == Dispatch(trees, method, path) IN
       last' = Last("Handler", method, path, 0, FALSE, out.kind = "Panic", NoLookup, out)
    /\ UNCHANGED <<trees, registered, allOk, nins, pool, methods, reqs, tasks>>

\* r.GetTree(method).GetValue(path, method)
GetValue(method, path) ==
    /\ trees[method].present
    /\ LET res == treeGetValue(trees[method], path, method) IN
       last' = Last("GetValue", method, path, 0, FALSE, res.panic, res, NoOutcome)
    /\ UNCHANGED <<trees, registered, allOk, nins, pool, methods, reqs, tasks>>

\* the methods GetMethod can return for a request
RequestMethods == MethodKeys \ {"ALL"}

(***************************************************************************)
(* Router.Handler run by several goroutines at once.  A goroutine reads    *)
(* the shared r.trees three times: the lookup in its method's own tree,    *)
(* the lookup in the ALL tree, the loop over the other trees.  Each read   *)
(* is one step, so that the reads of different goroutines interleave.      *)
(***************************************************************************)
Returned(t, out) ==
    tasks' = [tasks EXCEPT ![t].pc = "done", ![t].out = out]

\* the server hands a request to goroutine t: path and method are read
Begin(t, method, path) ==
    /\ tasks[t].pc = "idle"
    /\ tasks' = [tasks EXCEPT ![t] = [pc |-> "own", method |-> method,
                                      path |-> path, out |-> NoOutcome]]
    /\ UNCHANGED <<trees, registered, allOk, nins, last, pool, methods, reqs>>

\* as OwnLookup, but reading r.trees[method] creates the tree when it is
\* missing, the way Router.Handle reads it
OwnLookupCreating(t) ==
    /\ tasks[t].pc = "own"
    /\ LET own == Probe(trees, tasks[t].method, tasks[t].path) IN
       IF own.panic THEN Returned(t, Outcome("Panic", 0, <<>>, "", {}))
       ELSE IF own.handler # 0
       THEN Returned(t, Outcome("Match", own.handler, own.ps, "", {}))
       ELSE IF trees[tasks[t].method].present /\ HonoursTsr(tasks[t].method, own.tsr)
       THEN Returned(t, Outcome("Redirect", 0, <<>>, RedirectPath(tasks[t].path), {}))
       ELSE tasks' = [tasks EXCEPT ![t].pc = "all"]
    /\ trees' = [trees EXCEPT ![tasks[t].method] = IF @.present THEN @ ELSE NewTree]
    /\ UNCHANGED <<registered, allOk, nins, last, pool, methods, reqs>>

\* lines 46-66 of handle.go: the lookup in the method's own tree
OwnLookup(t) ==
    /\ tasks[t].pc = "own"
    /\ LET own == Probe(trees, tasks[t].method, tasks[t].path) IN
       IF own.panic THEN Returned(t, Outcome("Panic", 0, <<>>, "", {}))
       ELSE IF own.handler # 0
       THEN Returned(t, Outcome("Match", own.handler, own.ps, "", {}))
       ELSE IF trees[tasks[t].method].present /\ HonoursTsr(tasks[t].method, own.tsr)
       THEN Returned(t, Outcome("Redirect", 0, <<>>, RedirectPath(tasks[t].path), {}))
       ELSE tasks' = [tasks EXCEPT ![t].pc = "all"]
    /\ UNCHANGED <<trees, registered, allOk, nins, last, pool, methods, reqs>>

\* lines 68-78: the lookup in the ALL tree
AllLookup(t) ==
    /\ tasks[t].pc = "all"
    /\ LET all == Probe(trees, "ALL", tasks[t].path) IN
       IF all.panic THEN Returned(t, Outcome("Panic", 0, <<>>, "", {}))
       ELSE IF all.handler # 0
       THEN Returned(t, Outcome("Match", all.handler, all.ps, "", {}))
       ELSE tasks' = [tasks EXCEPT ![t].pc = "others"]
    /\ UNCHANGED <<trees, registered, allOk, nins, last, pool, methods, reqs>>

\* lines 80-108: the probe of the other trees and the answer
ProbeOthers(t) ==
    /\ tasks[t].pc = "others"
    /\ LET others == {m \in MethodKeys : /\ m # tasks[t].method /\ m # "ALL"
                                          /\ trees[m].present}
           allowed == {m \in others : Allows(trees, m, tasks[t].path)}
       IN IF \E m \in others : Probe(trees, m, tasks[t].path).panic
          THEN Returned(t, Outcome("Panic", 0, <<>>, "", {}))
          ELSE IF allowed # {}
          THEN Returned(t, Outcome("MethodNotAllowed", 0, <<>>, "", allowed))
          ELSE Returned(t, Outcome("NotFound", 0, <<>>, "", {}))
    /\ UNCHANGED <<trees, registered, allOk, nins, last, pool, methods, reqs>>

\* the answer is sent and goroutine t is free again
Finish(t) ==
    /\ tasks[t].pc = "done"
    /\ tasks' = [tasks EXCEPT ![t] = Idle]
    /\ UNCHANGED <<trees, registered, allOk, nins, last, pool, methods, reqs>>

\* routes are registered while no request is being handled
Register(method, path, handler) ==
    /\ \A t \in Tasks : tasks[t].pc = "idle"
    /\ Handle(method, path, handler)

NextParallel ==
    \/ \E m \in methods, p \in pool, h \in Handlers : Register(m, p, h)
    \/ \E t \in Tasks, m \in RequestMethods, p \in reqs : Begin(t, m, p)
    \/ \E t \in Tasks : OwnLookup(t)
    \/ \E t \in Tasks : AllLookup(t)
    \/ \E t \in Tasks : ProbeOthers(t)
    \/ \E t \in Tasks : Finish(t)

Next ==
    \/ \E m \in methods, p \in pool, h \in Handlers : Handle(m, p, h)
    \/ \E m \in RequestMethods, p \in reqs : Handler(m, p)
    \/ \E m \in methods, p \in reqs : GetValue(m, p)

(***************************************************************************)
(* Patterns as the documentation reads them: the brace groups of a         *)
(* pattern, their names, and the paths a pattern is meant to accept.       *)
(***************************************************************************)
IsStaticPattern(pat) == ~Contains(pat, "{")

\* the content of the first brace group of pat (which has one)
FirstGroup(pat) ==
    LET a == Index(pat, "{")
        rest == From(pat, a + 1)
    IN Slice(rest, 0, Index(rest, "}"))

\* what follows the first brace group
AfterFirstGroup(pat) == From(pat, Index(pat, "}") + 1)

GroupIsCatchAll(g) == HasSuffix(g, ":*")

\* the declared name: the group up to its '?' or ':'
GroupName(g) ==
    LET q == Index(g, "?")
        c == Index(g, ":")
        cut == IF q >= 0 /\ (c < 0 \/ q < c) THEN q ELSE IF c >= 0 THEN c ELSE Len(g)
    IN Slice(g, 0, cut)

RECURSIVE Subst(_, _, _)
\* the path obtained from pat with v for every single-segment parameter
\* and w for a catch-all
Subst(pat, v, w) ==
    IF IsStaticPattern(pat) THEN pat
    ELSE Slice(pat, 0, Index(pat, "{"))
         \o (IF GroupIsCatchAll(FirstGroup(pat)) THEN w ELSE v)
         \o Subst(AfterFirstGroup(pat), v, w)

RECURSIVE ExpectedBag(_, _, _)
\* one (name, value) pair per parameter, in the order of the pattern
ExpectedBag(pat, v, w) ==
    IF IsStaticPattern(pat) THEN <<>>
    ELSE <<[Key |-> GroupName(FirstGroup(pat)),
            Value |-> IF GroupIsCatchAll(FirstGroup(pat)) THEN w ELSE v]>>
         \o ExpectedBag(AfterFirstGroup(pat), v, w)

\* sample values: one segment, and a remainder with a '/'
SegValue == "7"
RestValue == "a/b"

Instance(pat) == Subst(pat, SegValue, RestValue)

\* pattern pat is a static prefix followed by one plain parameter {name}
\* and accepts path: the prefix, then one non-empty segment
SingleParamAccepts(pat, path) ==
    /\ ~IsStaticPattern(pat)
    /\ AfterFirstGroup(pat) = ""
    /\ FirstGroup(pat) = GroupName(FirstGroup(pat))
    /\ LET pre == Slice(pat, 0, Index(pat, "{")) IN
       /\ HasPrefix(path, pre)
       /\ Len(path) > Len(pre)
       /\ ~Contains(From(path, Len(pre)), "/")

\* the static text before the first brace group
StaticPrefix(pat) == Slice(pat, 0, Index(pat, "{"))

\* the group is {name?} or {name?:REGEX}
GroupIsOptional(g) ==
    Index(g, "?") >= 0 /\ GroupName(g) = Slice(g, 0, Index(g, "?"))

RECURSIVE HasOptionalGroup(_)
HasOptionalGroup(pat) ==
    /\ ~IsStaticPattern(pat)
    /\ (GroupIsOptional(FirstGroup(pat)) \/ HasOptionalGroup(AfterFirstGroup(pat)))

RECURSIVE SubstAbsent(_, _)
\* the path obtained from pat with every optional parameter left empty and v
\* for every required one
SubstAbsent(pat, v) ==
    IF IsStaticPattern(pat) THEN pat
    ELSE StaticPrefix(pat)
         \o (IF GroupIsOptional(FirstGroup(pat)) THEN "" ELSE v)
         \o SubstAbsent(AfterFirstGroup(pat), v)

RECURSIVE BagAbsent(_, _)
\* one pair per parameter in pattern order, the optional ones with ""
BagAbsent(pat, v) ==
    IF IsStaticPattern(pat) THEN <<>>
    ELSE <<[Key |-> GroupName(FirstGroup(pat)),
            Value |-> IF GroupIsOptional(FirstGroup(pat)) THEN "" ELSE v]>>
         \o BagAbsent(AfterFirstGroup(pat), v)

\* pat ends in "/{name?}": its last segment is an optional parameter
EndsInOptionalSegment(pat) ==
    /\ ~IsStaticPattern(pat)
    /\ HasSuffix(pat, "?}")
    /\ \E k \in 0..(Len(pat) - 1) :
          /\ Slice(pat, k, k + 2) = "/{"
          /\ ~Contains(From(pat, k + 2), "{")
          /\ ~Contains(From(pat, k + 2), "/")

\* pat without its last segment and without the slash before it
WithoutLastSegment(pat) ==
    LET k == CHOOSE k \in 0..(Len(pat) - 1) :
                 Slice(pat, k, k + 2) = "/{" /\ ~Contains(From(pat, k + 2), "{")
    IN Slice(pat, 0, k)

\* pattern pat is a static prefix followed by a catch-all {name:*}
SingleCatchAllPattern(pat) ==
    /\ ~IsStaticPattern(pat)
    /\ AfterFirstGroup(pat) = ""
    /\ GroupIsCatchAll(FirstGroup(pat))

\* pattern pat is a static prefix, one plain parameter {name} and a static
\* suffix inside the same segment
ParamSuffixPattern(pat) ==
    /\ ~IsStaticPattern(pat)
    /\ FirstGroup(pat) = GroupName(FirstGroup(pat))
    /\ AfterFirstGroup(pat) # ""
    /\ IsStaticPattern(AfterFirstGroup(pat))
    /\ ~Contains(AfterFirstGroup(pat), "/")

\* pattern pat is a static prefix followed by one plain parameter {name}
SingleParamPattern(pat) ==
    /\ ~IsStaticPattern(pat)
    /\ AfterFirstGroup(pat) = ""
    /\ FirstGroup(pat) = GroupName(FirstGroup(pat))

RECURSIVE CatchAllNotLast(_)
\* some catch-all group of pat is followed by more than a trailing '/'
CatchAllNotLast(pat) ==
    /\ ~IsStaticPattern(pat)
    /\ \/ GroupIsCatchAll(FirstGroup(pat)) /\ AfterFirstGroup(pat) \notin {"", "/"}
       \/ CatchAllNotLast(AfterFirstGroup(pat))

RECURSIVE Malformed(_)
\* some brace group of pat holds a brace, has an empty name part, or is
\* followed by another brace group in the same segment
Malformed(pat) ==
    /\ ~IsStaticPattern(pat)
    /\ \/ Contains(FirstGroup(pat), "{")
       \/ GroupName(FirstGroup(pat)) = ""
       \/ Contains(Slice(AfterFirstGroup(pat), 0, ParamEnd(AfterFirstGroup(pat))), "{")
       \/ Malformed(AfterFirstGroup(pat))

\* the regex body of a group {name:REGEX}
RegexSource(g) == From(g, Index(g, ":") + 1)

\* pattern pat is a static prefix followed by one required parameter with a
\* regex, {name:REGEX}
SingleRegexPattern(pat) ==
    /\ ~IsStaticPattern(pat)
    /\ AfterFirstGroup(pat) = ""
    /\ ~GroupIsCatchAll(FirstGroup(pat))
    /\ Index(FirstGroup(pat), ":") >= 0
    /\ GroupName(FirstGroup(pat)) = Slice(FirstGroup(pat), 0, Index(FirstGroup(pat), ":"))

\* path is the static prefix of pat followed by one non-empty segment
OneSegmentAfterPrefix(pat, path) ==
    /\ HasPrefix(path, StaticPrefix(pat))
    /\ Len(path) > Len(StaticPrefix(pat))
    /\ ~Contains(From(path, Len(StaticPrefix(pat))), "/")

\* the segment of path that the parameter of pat captures
Segment(pat, path) == From(path, Len(StaticPrefix(pat)))

\* the segment satisfies "^REGEX$", REGEX as written in the pattern
SatisfiesRegex(pat, path) ==
    regexRun(regexParse(RegexSource(FirstGroup(pat)), <<>>).items, 1,
             Segment(pat, path), 0)

\* the handler of the latest successful Handle(m, pat, _), 0 if none
Reg(m, pat) == IF pat \in pool THEN registered[m][pat] ELSE 0

(***************************************************************************)
(* The runs: which patterns are registered under which methods and which   *)
(* request paths are looked up.                                            *)
(***************************************************************************)
\* dispatch over several methods, with and without a trailing slash
Init == InitWith({"/u", "/u/"}, {"GET", "CONNECT", "ALL"}, {"/u", "/u/", "/x"})

Spec == Init /\ [][Next]_vars

\* a static pattern and a parameter pattern that accept the same path
InitConflict ==
    InitWith({"/user/profile", "/user/{id}"}, {"GET"},
             {"/user/profile", "/user/123"})

SpecConflict == InitConflict /\ [][Next]_vars

\* patterns that share a parameter prefix, and a static pattern next to a
\* parameter at the same position
InitReach ==
    InitWith({"/users/{id}", "/users/{id}/posts", "/ab", "/{x}/y"}, {"GET"},
             {"/users/7", "/users/7/posts", "/ab", "/7/y"})

SpecReach == InitReach /\ [][Next]_vars

\* catch-all patterns, alone and after an earlier parameter
InitParams ==
    InitWith({"/files/{p:*}", "/api/{version}/files/{filepath:*}", "/user/{id}"},
             {"GET"},
             {"/files/a/b", "/api/7/files/a/b", "/user/7"})

SpecParams == InitParams /\ [][Next]_vars

\* trailing slashes
InitTsr ==
    InitWith({"/ab", "/ab/c", "/{id}/x"}, {"GET", "CONNECT"},
             {"/ab", "/ab/", "/ab/c", "/7/x", "/7/", "/7"})

SpecTsr == InitTsr /\ [][Next]_vars

\* the same parameter patterns under a specific method and under ALL
InitAll ==
    InitWith({"/users/{id}", "/users/{id}/posts"}, {"GET", "ALL"},
             {"/users/7", "/users/7/posts"})

SpecAll == InitAll /\ [][Next]_vars

\* parameters validated by a regex
InitRegex ==
    InitWith({"/user/{id:[0-9]+}", "/item/{k:a?b}"}, {"GET"},
             {"/user/12", "/user/1a", "/item/ab", "/item/b"})

SpecRegex == InitRegex /\ [][Next]_vars

\* optional parameters: last segment, middle segment, after a parameter
InitOptional ==
    InitWith({"/api/{version?}", "/docs/{page?}/info", "/v/{x}/api/{v?}"}, {"GET"},
             {"/api/", "/api", "/api/7", "/docs//info", "/v/7/api/", "/v/7/api"})

SpecOptional == InitOptional /\ [][Next]_vars

\* catch-all patterns under different static prefixes
InitCatchAll ==
    InitWith({"/files/{filepath:*}", "/static/{p:*}", "/s"}, {"GET"},
             {"/files/a/b", "/files/7", "/files/", "/static/a/b", "/s", "/x"})

SpecCatchAll == InitCatchAll /\ [][Next]_vars

\* a required parameter alone in its segment, and one with a static suffix
InitSegment ==
    InitWith({"/user/{name}", "/admin/{name}_profile"}, {"GET"},
             {"/user/john", "/user/", "/user/john/profile",
              "/admin/john_profile", "/admin/john"})

SpecSegment == InitSegment /\ [][Next]_vars

\* the same patterns under two specific methods
InitMethods ==
    InitWith({"/users/{id}", "/users/{id}/posts", "/s"}, {"GET", "POST"},
             {"/users/7", "/users/7/posts", "/s"})

SpecMethods == InitMethods /\ [][Next]_vars

\* parameters at the same position that differ in name, regex or optional flag
InitParamConflict ==
    InitWith({"/user/{id}", "/user/{name}", "/user/{id:[0-9]+}", "/user/{id?}"},
             {"GET"}, {"/user/7", "/user/x", "/user/"})

SpecParamConflict == InitParamConflict /\ [][Next]_vars

\* catch-all patterns with the same, with unrelated and with nested prefixes
InitCatchAlls ==
    InitWith({"/files/{a:*}", "/files/{o:*}", "/docs/{d:*}", "/files/x/{q:*}"},
             {"GET"}, {"/files/a/b", "/docs/a/b", "/files/x/a/b"})

SpecCatchAlls == InitCatchAlls /\ [][Next]_vars

\* patterns with a catch-all before their end, next to well-formed ones
InitNonTerminal ==
    InitWith({"/x/{p:*}/y", "/{a}/{p:*}/y", "/x/{p:*}", "/x/a"},
             {"GET"}, {"/x/a", "/x/a/y"})

SpecNonTerminal == InitNonTerminal /\ [][Next]_vars

\* patterns with malformed parameter syntax
InitMalformed ==
    InitWith({"/n/{a{b}}", "/e/{}", "/e/{:abc}", "/a/{x}{y}"},
             {"GET"}, {"/e/abc", "/a/7", "/a/78"})

SpecMalformed == InitMalformed /\ [][Next]_vars

\* the root pattern, paths without the leading '/', and the empty path
InitPaths ==
    InitWith({"/", "/u", "u", ""}, {"GET", "POST"}, {"", "/", "/u"})

SpecPaths == InitPaths /\ [][Next]_vars

(***************************************************************************)
(* Claims.                                                                 *)
(***************************************************************************)
\* some registered parameter pattern of method m accepts path
ParamAcceptors(m, path) ==
    {pat \in pool : Reg(m, pat) # 0 /\ SingleParamAccepts(pat, path)}

\* C1: in a tree holding a static pattern and a single-parameter pattern
\* that accept the same path, lookup of the static path returns the static
\* pattern's handler whichever was registered first, and a path only the
\* parameter pattern accepts returns the parameter pattern's handler.
C1_StaticWinsOverParam ==
    (last.op = "GetValue" /\ allOk) =>
        LET m == last.method
            statics == {pat \in pool : IsStaticPattern(pat) /\ Reg(m, pat) # 0}
            accs == ParamAcceptors(m, last.path)
        IN (statics # {} /\ accs # {}) =>
              IF last.path \in statics
              THEN last.res.handler = Reg(m, last.path)
              ELSE \A pat \in accs : last.res.handler = Reg(m, pat)

\* the registered patterns of method m whose sample path is path
PatternsOf(m, path) ==
    {pat \in pool : Reg(m, pat) # 0 /\ Instance(pat) = path}

\* C2: after successful inserts only, lookup of a path obtained from a
\* registered pattern by substituting values for its parameters returns the
\* handler most recently registered for that pattern, whatever other
\* patterns were registered or re-registered since.
C2_RegisteredStaysReachable ==
    (last.op = "GetValue" /\ allOk) =>
        \A pat \in PatternsOf(last.method, last.path) :
            last.res.handler = Reg(last.method, pat)

\* C3: a successful Handle of an already registered pattern replaces the
\* handler: right after it, lookup of the pattern's sample path returns the
\* handler just given, with the pattern's parameters captured.
C3_ReinsertReplacesHandler ==
    (last.op = "Handle" /\ last.dup /\ allOk) =>
        LET res == treeGetValue(trees[last.method], Instance(last.path), last.method)
        IN /\ ~res.panic
           /\ res.handler = last.handler
           /\ res.ps = ExpectedBag(last.path, SegValue, RestValue)

\* C4: Handle of a pattern already registered under the method never panics.
C4_DuplicateNeverPanics ==
    (last.op = "Handle" /\ last.dup) => ~last.panic

\* C5: a successful lookup returns one (name, value) pair per parameter of
\* the matched pattern, in pattern order, each under the parameter's own
\* name with the substring it matched.
C5_BagFollowsPattern ==
    (last.op = "GetValue" /\ allOk /\ last.res.handler # 0) =>
        \A pat \in PatternsOf(last.method, last.path) :
            last.res.ps = ExpectedBag(pat, SegValue, RestValue)

\* C6: lookup of a registered static pattern returns an empty parameter bag,
\* also when a registered parameter pattern accepts the same path.
C6_StaticBagEmpty ==
    (last.op = "GetValue" /\ allOk /\ IsStaticPattern(last.path)
     /\ Reg(last.method, last.path) # 0) =>
        last.res.ps = <<>>

\* path c is path p with exactly one trailing '/' removed or appended
SlashVariant(p, c) == c = p \o "/" \/ p = c \o "/"

\* C7: a Redirect is only issued for a method other than CONNECT, towards
\* the path with one trailing '/' removed or appended, and that path
\* dispatches to a Match.
C7_RedirectTargetMatches ==
    (last.op = "Handler" /\ last.out.kind = "Redirect") =>
        /\ last.method # "CONNECT"
        /\ SlashVariant(last.path, last.out.location)
        /\ Dispatch(trees, last.method, last.out.location).kind = "Match"

\* C8: for a registered static pattern not ending in '/', lookup of the
\* pattern with one '/' appended (not itself registered) returns no handler
\* and TSR; for a registered static pattern ending in '/', lookup of the
\* pattern without that slash (not itself registered) returns TSR.
C8_TsrForSlashVariant ==
    (last.op = "GetValue" /\ allOk /\ Reg(last.method, last.path) = 0) =>
        \A pat \in pool :
            (IsStaticPattern(pat) /\ Reg(last.method, pat) # 0
             /\ SlashVariant(pat, last.path)) =>
                (last.res.handler = 0 /\ last.res.tsr)

\* C9: when Handler answers MethodNotAllowed with the allowed set S, the
\* request's method is not in S and a request of the same path with any
\* method of S is a Match.
C9_AllowedMethodsMatch ==
    (last.op = "Handler" /\ last.out.kind = "MethodNotAllowed") =>
        /\ last.method \notin last.out.allowed
        /\ \A m \in last.out.allowed :
               Dispatch(trees, m, last.path).kind = "Match"

\* a MethodNotAllowed answer that names two methods
C9_Witness ==
    /\ last.op = "Handler"
    /\ last.out.kind = "MethodNotAllowed"
    /\ Cardinality(last.out.allowed) = 2

\* the methods other than m and ALL whose own tree has a handler for path
MatchingMethods(m, path) ==
    {x \in MethodKeys \ {m, "ALL"} :
        trees[x].present /\ treeGetValue(trees[x], path, x).handler # 0}

\* C10: Handler answers MethodNotAllowed exactly when the method's own tree
\* gives neither a handler nor a trailing-slash recommendation that is
\* honoured (the method is not CONNECT), the ALL tree gives no handler, and
\* some other method's tree gives one; the allowed set is then the set of
\* all such methods.
C10_MethodNotAllowedExactly ==
    (last.op = "Handler") =>
        LET own == Probe(trees, last.method, last.path)
            viaAll == Probe(trees, "ALL", last.path)
            matching == MatchingMethods(last.method, last.path)
            expected == /\ own.handler = 0
                        /\ ~(own.tsr /\ last.method # "CONNECT")
                        /\ viaAll.handler = 0
                        /\ matching # {}
        IN /\ (last.out.kind = "MethodNotAllowed") <=> expected
           /\ (last.out.kind = "MethodNotAllowed") => last.out.allowed = matching

\* a CONNECT request whose tree recommends the other slash form, answered
\* MethodNotAllowed
C10_Witness ==
    /\ last.op = "Handler"
    /\ last.method = "CONNECT"
    /\ Probe(trees, "CONNECT", last.path).tsr
    /\ last.out.kind = "MethodNotAllowed"

\* C11: when a pattern is registered under the request's method and under
\* ALL, a request whose path the pattern accepts is a Match with the
\* handler registered under the method, never the one registered under ALL.
C11_MethodWinsOverAll ==
    (last.op = "Handler" /\ allOk) =>
        \A pat \in PatternsOf(last.method, last.path) :
            Reg("ALL", pat) # 0 =>
                /\ last.out.kind = "Match"
                /\ last.out.handler = Reg(last.method, pat)

\* C12: when a pattern registered under ALL accepts the request's path and
\* no pattern registered under the request's method does, the request is a
\* Match with the ALL handler and the ALL pattern's parameters.
C12_AllFallbackMatches ==
    (last.op = "Handler" /\ allOk /\ PatternsOf(last.method, last.path) = {}) =>
        \A pat \in PatternsOf("ALL", last.path) :
            /\ last.out.kind = "Match"
            /\ last.out.handler = Reg("ALL", pat)
            /\ last.out.params = ExpectedBag(pat, SegValue, RestValue)

\* the registered single-regex patterns of method m under whose static
\* prefix path has one segment
RegexPatternsAt(m, path) ==
    {pat \in pool : /\ Reg(m, pat) # 0
                    /\ SingleRegexPattern(pat)
                    /\ OneSegmentAfterPrefix(pat, path)}

\* C13: for a registered pattern ending in {name:REGEX}, lookup of a path
\* with one segment in the parameter's place returns the pattern's handler
\* with the segment under name when the whole segment satisfies REGEX, and
\* no handler when it does not.
C13_RegexDecidesMatch ==
    (last.op = "GetValue" /\ allOk) =>
        \A pat \in RegexPatternsAt(last.method, last.path) :
            IF SatisfiesRegex(pat, last.path)
            THEN /\ last.res.handler = Reg(last.method, pat)
                 /\ last.res.ps = <<[Key |-> GroupName(FirstGroup(pat)),
                                     Value |-> Segment(pat, last.path)]>>
            ELSE last.res.handler = 0

\* the registered patterns of method m with an optional parameter whose
\* path with every optional segment empty is path
AbsentPatternsOf(m, path) ==
    {pat \in pool : /\ Reg(m, pat) # 0
                    /\ HasOptionalGroup(pat)
                    /\ SubstAbsent(pat, SegValue) = path}

\* C14: for a registered pattern with an optional parameter, lookup of the
\* path in which the optional segment is empty returns the pattern's
\* handler and a bag with the optional parameter under the empty string
\* next to the entries of the other parameters.
C14_EmptyOptionalMatches ==
    (last.op = "GetValue" /\ allOk) =>
        \A pat \in AbsentPatternsOf(last.method, last.path) :
            /\ last.res.handler = Reg(last.method, pat)
            /\ last.res.ps = BagAbsent(pat, SegValue)

\* C15: for a registered pattern whose last segment is an optional
\* parameter, a request for the path without that segment and without its
\* slash is a Match with the pattern's handler and the parameter empty.
C15_OptionalSegmentCollapses ==
    (last.op = "Handler" /\ allOk) =>
        \A pat \in pool :
            (/\ Reg(last.method, pat) # 0
             /\ EndsInOptionalSegment(pat)
             /\ SubstAbsent(WithoutLastSegment(pat), SegValue) = last.path) =>
                /\ last.out.kind = "Match"
                /\ last.out.handler = Reg(last.method, pat)
                /\ last.out.params = BagAbsent(pat, SegValue)

\* C16: for a registered pattern made of a static prefix and a catch-all
\* {name:*}, lookup of every path that starts with the prefix, the prefix
\* itself included, returns the pattern's handler and a bag holding the
\* whole remainder of the path under name.
C16_CatchAllTakesRemainder ==
    (last.op = "GetValue" /\ allOk) =>
        \A pat \in pool :
            (/\ Reg(last.method, pat) # 0
             /\ SingleCatchAllPattern(pat)
             /\ HasPrefix(last.path, StaticPrefix(pat))) =>
                /\ last.res.handler = Reg(last.method, pat)
                /\ last.res.ps = <<[Key |-> GroupName(FirstGroup(pat)),
                                    Value |-> From(last.path, Len(StaticPrefix(pat)))]>>

\* C17: for a registered pattern whose parameter is followed by a static
\* suffix in the same segment, lookup of prefix, value and suffix returns
\* the pattern's handler with the value under the parameter's name, and
\* lookup of a path without the suffix returns no handler.
C17_ParamWithSuffix ==
    (last.op = "GetValue" /\ allOk) =>
        \A pat \in pool :
            (/\ Reg(last.method, pat) # 0
             /\ ParamSuffixPattern(pat)
             /\ OneSegmentAfterPrefix(pat, last.path)) =>
                LET seg == Segment(pat, last.path)
                    suffix == AfterFirstGroup(pat)
                IN IF HasSuffix(seg, suffix) /\ Len(seg) > Len(suffix)
                   THEN /\ last.res.handler = Reg(last.method, pat)
                        /\ last.res.ps =
                             <<[Key |-> GroupName(FirstGroup(pat)),
                                Value |-> Slice(seg, 0, Len(seg) - Len(suffix))]>>
                   ELSE last.res.handler = 0

\* the patterns registered under method m
RegisteredPatterns(m) == {pat \in pool : Reg(m, pat) # 0}

\* C18: with a single pattern registered, a static prefix followed by a
\* required parameter {name}, lookup returns the handler exactly for the
\* prefix followed by one non-empty segment: the prefix alone (empty value)
\* and a path with a further segment return no handler.
C18_RequiredParamOneSegment ==
    (last.op = "GetValue" /\ allOk) =>
        \A pat \in pool :
            (RegisteredPatterns(last.method) = {pat} /\ SingleParamPattern(pat)) =>
                IF OneSegmentAfterPrefix(pat, last.path)
                THEN /\ last.res.handler = Reg(last.method, pat)
                     /\ last.res.ps = <<[Key |-> GroupName(FirstGroup(pat)),
                                         Value |-> Segment(pat, last.path)]>>
                ELSE last.res.handler = 0

\* a lookup with a further segment after the value, refused
C18_Witness ==
    /\ last.op = "GetValue"
    /\ allOk
    /\ RegisteredPatterns(last.method) = {"/user/{name}"}
    /\ last.path = "/user/john/profile"
    /\ last.res.handler = 0

\* C19: a successful Handle under method M changes neither the lookup nor
\* the dispatch result of any request of another specific method for a
\* path that a pattern registered under that other method accepts.
C19_MethodsIndependent ==
    [][(last'.op = "Handle" /\ allOk') =>
          \A m2 \in RequestMethods \ {last'.method} :
              \A q \in reqs :
                  PatternsOf(m2, q) # {} =>
                      /\ Probe(trees', m2, q) = Probe(trees, m2, q)
                      /\ Dispatch(trees', m2, q) = Dispatch(trees, m2, q)]_vars

\* patterns a and b put different parameters (in name, regex body or
\* optional mark) at the same tree position: same static prefix, same rest
ParamsConflict(a, b) ==
    /\ ~IsStaticPattern(a) /\ ~IsStaticPattern(b)
    /\ ~GroupIsCatchAll(FirstGroup(a)) /\ ~GroupIsCatchAll(FirstGroup(b))
    /\ StaticPrefix(a) = StaticPrefix(b)
    /\ AfterFirstGroup(a) = AfterFirstGroup(b)
    /\ FirstGroup(a) # FirstGroup(b)

\* C20: Handle of a pattern whose parameter differs in name, regex body or
\* optional mark from the parameter that a pattern registered before put
\* at the same position panics.
C20_ParamMismatchIsError ==
    (last.op = "Handle") =>
        \A pat \in RegisteredPatterns(last.method) \ {last.path} :
            ParamsConflict(pat, last.path) => last.panic

\* the catch-all patterns registered under method m in registry reg
CatchAllsIn(reg, m) ==
    {pat \in pool : reg[m][pat] # 0 /\ SingleCatchAllPattern(pat)}

\* the registered catch-all pattern whose static prefix is the longest one
\* that path extends
OwnCatchAll(reg, m, path) ==
    {pat \in CatchAllsIn(reg, m) :
        /\ HasPrefix(path, StaticPrefix(pat)) /\ Len(path) > Len(StaticPrefix(pat))
        /\ \A o \in CatchAllsIn(reg, m) :
               HasPrefix(path, StaticPrefix(o))
                   => Len(StaticPrefix(o)) <= Len(StaticPrefix(pat))}

\* C21: after successful registrations, Handle of a catch-all pattern not
\* registered yet panics when a registered catch-all has the same static prefix and
\* another parameter name, and succeeds when every registered catch-all
\* has another static prefix; a request under the prefix of a registered
\* catch-all is then a Match with the handler of that prefix.
C21_CatchAllPrefixes ==
    [][/\ (/\ last'.op = "Handle" /\ allOk
           /\ SingleCatchAllPattern(last'.path)
           /\ registered[last'.method][last'.path] = 0) =>
           LET others == CatchAllsIn(registered, last'.method) \ {last'.path}
               same == {o \in others : StaticPrefix(o) = StaticPrefix(last'.path)}
           IN /\ same # {} => last'.panic
              /\ same = {} => ~last'.panic
       /\ (last'.op = "Handler" /\ allOk) =>
           \A pat \in OwnCatchAll(registered, last'.method, last'.path) :
               /\ last'.out.kind = "Match"
               /\ last'.out.handler = registered[last'.method][pat]]_vars

\* C22: Handle of a pattern in which a catch-all is followed by a further
\* segment panics, in whatever state the trees are.
C22_NonTerminalCatchAllPanics ==
    (last.op = "Handle" /\ CatchAllNotLast(last.path)) => last.panic

\* the pattern /x/{p:*}/y refused in a tree that already holds /x/{p:*}
C22_Witness ==
    /\ last.op = "Handle"
    /\ last.path = "/x/{p:*}/y"
    /\ last.panic
    /\ registered[last.method]["/x/{p:*}"] # 0

\* C23: Handle of a pattern with malformed parameter syntax (nested braces,
\* a brace group whose name part is empty, two brace groups in one segment)
\* panics.
C23_MalformedSyntaxPanics ==
    (last.op = "Handle" /\ Malformed(last.path)) => last.panic

\* C24: Handle with a path that does not begin with '/' panics and leaves
\* the router as it was: no tree is created and every request is dispatched
\* as before the call.
C24_BadPathTouchesNothing ==
    [][(last'.op = "Handle" /\ ~HasPrefix(last'.path, "/")) =>
          /\ last'.panic
          /\ \A m \in MethodKeys : trees'[m].present = trees[m].present
          /\ \A m \in RequestMethods, q \in reqs :
                 Dispatch(trees', m, q) = Dispatch(trees, m, q)]_vars

\* a refused path under a method without a tree, in a router that has routes
C24_Witness ==
    /\ last.op = "Handle"
    /\ last.path = "u"
    /\ last.panic
    /\ ~trees[last.method].present
    /\ \E m \in MethodKeys : trees[m].present

InitParallel == InitWith({"/u/"}, {"GET", "ALL"}, {"/u", "/u/"})

SpecParallel == InitParallel /\ [][NextParallel]_vars

\* a step of a goroutine inside Router.Handler, from the request's arrival
\* to its answer
LookupStep == \E t \in Tasks : tasks'[t] # tasks[t]

\* C26: lookup and dispatch never mutate a tree: whatever the interleaving
\* of the requests handled in parallel, no step of Router.Handler changes
\* the trees, and the answer a request gets is the answer it gets when it
\* is dispatched alone on the same router.
C26_ParallelLookupsPure ==
    [][/\ LookupStep => trees' = trees
       /\ \A t \in Tasks : tasks'[t].pc = "done" =>
              tasks'[t].out = Dispatch(trees', tasks'[t].method, tasks'[t].path)]_vars

\* both goroutines were inside Router.Handler together and got different
\* kinds of answer
C26_Witness ==
    /\ tasks["t1"].pc = "done" /\ tasks["t1"].out.kind = "MethodNotAllowed"
    /\ tasks["t2"].pc \in {"all", "others"}
    /\ \E m \in MethodKeys : trees[m].present

\* C27: parsing a parameter sets optional exactly when a '?' directly follows
\* the name; a '?' inside the regex body neither makes the parameter
\* optional nor changes the regex that is compiled.
C27_OptionalOnlyAfterName ==
    (/\ last.op = "Handle"
     /\ ~IsStaticPattern(last.path)
     /\ ~GroupIsCatchAll(FirstGroup(last.path))) =>
        LET g == FirstGroup(last.path)
            r == parseParam("{" \o g \o "}")
        IN /\ r.optional = GroupIsOptional(g)
           /\ Index(g, ":") >= 0 =>
                  ~r.regex.nil /\ r.regex.src = RegexSource(g)

IsStaticChild(c) == c.nType = "static"

\* indices of node n and its static children correspond positionally, and
\* position i of the children holds the child that indices[i] announces
IndicesMatch(n) ==
    LET sc == SelectSeq(n.children, IsStaticChild) IN
    /\ Len(n.indices) = Len(sc)
    /\ \A i \in 1..Len(sc) :
          /\ At(n.indices, i - 1) = At(sc[i].path, 0)
          /\ n.children[i] = sc[i]

RECURSIVE IndicesMatchBelow(_)
\* IndicesMatch in n and in every node below it
IndicesMatchBelow(n) ==
    /\ IndicesMatch(n)
    /\ \A i \in 1..Len(n.children) : IndicesMatchBelow(n.children[i])

\* C28: after any sequence of successful inserts, in every node of every
\* tree the indices have one byte per static child, the i-th byte is the
\* first byte of the i-th static child's path, and the child found through
\* indices is that static child.
C28_IndicesMatchStaticChildren ==
    allOk => \A m \in MethodKeys :
                trees[m].present => IndicesMatchBelow(trees[m].root)

(***************************************************************************)
(* Static patterns inserted in every order.                                *)
(***************************************************************************)
InitOrder ==
    InitWith({"/a", "/a/b", "/ab", "/a/b/c"}, {"GET"},
             {"/a", "/a/", "/a/b", "/a/b/", "/ab", "/ab/", "/a/b/c"})

SpecOrder == InitOrder /\ [][Next]_vars

\* the orders in which the patterns of S can be inserted
Orders(S) ==
    {o \in [1..Cardinality(S) -> S] : \A i, j \in DOMAIN o : o[i] = o[j] => i = j}

RECURSIVE BuildIn(_, _, _, _)
\* the tree after the patterns order[i..] are inserted into t, each with the
\* handler it is registered with under m
BuildIn(m, order, i, t) ==
    IF i > Len(order) THEN t
    ELSE BuildIn(m, order, i + 1,
                 [present |-> TRUE,
                  root |-> addRoute(t, m, order[i], registered[m][order[i]]).n])

\* every Handle so far succeeded and registered a pattern not registered yet
EachInsertedOnce ==
    /\ allOk
    /\ \A m \in methods : m # last.method => RegisteredPatterns(m) = {}
    /\ Cardinality(RegisteredPatterns(last.method)) = nins

\* C29: for a set of distinct static patterns, lookup of any path returns
\* the same handler and the same TSR flag whatever the order in which the
\* patterns were inserted.
C29_InsertionOrderIrrelevant ==
    (/\ last.op = "GetValue"
     /\ EachInsertedOnce
     /\ \A pat \in RegisteredPatterns(last.method) : IsStaticPattern(pat)) =>
        \A o \in Orders(RegisteredPatterns(last.method)) :
            LET res == treeGetValue(BuildIn(last.method, o, 1, NewTree),
                                    last.path, last.method)
            IN /\ res.handler = last.res.handler
               /\ res.tsr = last.res.tsr

\* C30: an insert that fails inside the tree leaves the tree as it was:
\* every lookup returns after the failed insert what it returned before it,
\* and no lookup panics.
C30_FailedInsertLeavesTree ==
    [][(/\ last'.op = "Handle"
        /\ last'.panic
        /\ HasPrefix(last'.path, "/")) =>
           \A q \in reqs :
               /\ Probe(trees', last'.method, q) = Probe(trees, last'.method, q)
               /\ ~Probe(trees', last'.method, q).panic]_vars

====
